---- MODULE Spec2Model ----
(***************************************************************************)
(* Model of the too_big_float crate: BigFloat = mantissa x 10^exponent,    *)
(* where the exponent is Exponent::Long(i64) or Exponent::BigFloat(Box).   *)
(*                                                                         *)
(* The f64 mantissa is modelled as a decimal floating-point number with    *)
(* Digits significant digits (truncating rounding), exponent range         *)
(* F64MinExp..F64MaxExp, and the sentinels NaN, +inf, -inf.  Signed zero   *)
(* is not distinguished (-0.0 == 0.0 in every comparison the code makes).  *)
(* The fixed-width integers are modelled with reduced widths LongBits      *)
(* (i64) and IntBits (i32), keeping f64 range < i32 range < i64 range.     *)
(***************************************************************************)
EXTENDS Integers, Sequences, FiniteSets, TLC

\* ---------------------------------------------------------------- bounds
Digits == 3
LongBits == 12
IntBits == 10
MaxOps == 1

\* ------------------------------------------------------ program constants
F64MaxExp == 308
F64MinExp == 0 - 324
PrecisionCliff == 15

\* ------------------------------------------------------- integer helpers
Abs(n) == IF n < 0 THEN 0 - n ELSE n

Sgn(n) == IF n < 0 THEN 0 - 1 ELSE IF n > 0 THEN 1 ELSE 0

RECURSIVE Pow10(_)
Pow10(k) == IF k <= 0 THEN 1 ELSE 10 * Pow10(k - 1)

RECURSIVE Pow2(_)
Pow2(k) == IF k <= 0 THEN 1 ELSE 2 * Pow2(k - 1)

RECURSIVE NDigits(_)
NDigits(n) == IF n < 10 THEN 1 ELSE 1 + NDigits(n \div 10)

LongMax == Pow2(LongBits - 1) - 1
LongMin == 0 - Pow2(LongBits - 1)
IntMin == 0 - Pow2(IntBits - 1)

InLong(n) == LongMin <= n /\ n <= LongMax

\* two's-complement wrap of n to the i64 / i32 width
WrapLong(n) == ((n - LongMin) % Pow2(LongBits)) + LongMin
AsI32(n) == ((n - IntMin) % Pow2(IntBits)) + IntMin

\* ------------------------------------------------------------- f64 model
FZero == [k |-> "fin", s |-> 0, x |-> 0]
FInf == [k |-> "inf", s |-> 1, x |-> 0]
FNegInf == [k |-> "inf", s |-> 0 - 1, x |-> 0]
FNaN == [k |-> "nan", s |-> 0, x |-> 0]
FPanic == [k |-> "panic", s |-> 0, x |-> 0]

FSignedInf(sg) == IF sg < 0 THEN FNegInf ELSE FInf

\* the f64 nearest (by truncation) to n * 10^q
Mk(n, q) ==
  IF n = 0 THEN FZero
  ELSE LET a == Abs(n)
           d == NDigits(a)
           t == IF d > Digits THEN a \div Pow10(d - Digits) ELSE a * Pow10(Digits - d)
           e == q + d - 1
       IN IF e > F64MaxExp THEN FSignedInf(n)
          ELSE IF e < F64MinExp THEN FZero
          ELSE [k |-> "fin", s |-> Sgn(n) * t, x |-> e]

\* a literal with Digits or fewer digits: n * 10^q
Lit(n, q) == Mk(n, q)

FIsNaN(a) == a.k = "nan"
FIsInfinite(a) == a.k = "inf"
FIsFinite(a) == a.k = "fin"
FIsZero(a) == a.k = "fin" /\ a.s = 0
FIsSignPositive(a) == a.s >= 0
FIsSignNegative(a) == a.s < 0

FNeg(a) == IF a.k = "nan" THEN a ELSE [a EXCEPT !.s = 0 - a.s]
FAbs(a) == IF a.k = "nan" THEN a ELSE [a EXCEPT !.s = Abs(a.s)]

FAdd(a, b) ==
  IF FIsNaN(a) \/ FIsNaN(b) THEN FNaN
  ELSE IF FIsInfinite(a) /\ FIsInfinite(b) THEN (IF a.s = b.s THEN a ELSE FNaN)
  ELSE IF FIsInfinite(a) THEN a
  ELSE IF FIsInfinite(b) THEN b
  ELSE IF FIsZero(a) THEN b
  ELSE IF FIsZero(b) THEN a
  ELSE LET hi == IF a.x >= b.x THEN a ELSE b
           lo == IF a.x >= b.x THEN b ELSE a
           d == hi.x - lo.x
       IN IF d > Digits + 1 THEN hi
          ELSE Mk(hi.s * Pow10(d) + lo.s, lo.x - (Digits - 1))

FMul(a, b) ==
  IF FIsNaN(a) \/ FIsNaN(b) THEN FNaN
  ELSE IF FIsInfinite(a) \/ FIsInfinite(b)
       THEN (IF FIsZero(a) \/ FIsZero(b) THEN FNaN ELSE FSignedInf(a.s * b.s))
  ELSE IF FIsZero(a) \/ FIsZero(b) THEN FZero
  ELSE Mk(a.s * b.s, a.x + b.x - 2 * (Digits - 1))

FDiv(a, b) ==
  IF FIsNaN(a) \/ FIsNaN(b) THEN FNaN
  ELSE IF FIsInfinite(a)
       THEN (IF FIsInfinite(b) THEN FNaN
             ELSE FSignedInf(a.s * (IF b.s < 0 THEN 0 - 1 ELSE 1)))
  ELSE IF FIsInfinite(b) THEN FZero
  ELSE IF FIsZero(b) THEN (IF FIsZero(a) THEN FNaN ELSE FSignedInf(a.s))
  ELSE IF FIsZero(a) THEN FZero
  ELSE Mk(Sgn(a.s) * Sgn(b.s) * ((Abs(a.s) * Pow10(Digits)) \div Abs(b.s)),
          a.x - b.x - Digits)

\* f64 == (NaN differs from everything, itself included)
FEq(a, b) == ~FIsNaN(a) /\ ~FIsNaN(b) /\ a = b

\* f64 <
FLt(a, b) ==
  /\ ~FIsNaN(a) /\ ~FIsNaN(b)
  /\ a # b
  /\ IF FIsInfinite(a) THEN a.s < 0
     ELSE IF FIsInfinite(b) THEN b.s > 0
     ELSE IF Sgn(a.s) # Sgn(b.s) THEN a.s < b.s
     ELSE IF a.s > 0 THEN (a.x < b.x \/ (a.x = b.x /\ a.s < b.s))
     ELSE (a.x > b.x \/ (a.x = b.x /\ a.s < b.s))

\* f64::partial_cmp
FPartialCmp(a, b) ==
  IF FIsNaN(a) \/ FIsNaN(b) THEN "None"
  ELSE IF FLt(a, b) THEN "Less"
  ELSE IF FLt(b, a) THEN "Greater"
  ELSE "Equal"

\* 10.0_f64.powi(k)
Powi10(k) ==
  IF k > F64MaxExp THEN FInf
  ELSE IF k < F64MinExp THEN FZero
  ELSE [k |-> "fin", s |-> Pow10(Digits - 1), x |-> k]

\* abs.log10().floor() of a finite non-zero f64
Log10Floor(a) == a.x

\* n as f64
IntToF64(n) == Mk(n, 0)

\* ------------------------------------------------------------ variables
\* x, y   the caller's two operands
\* swp    TRUE when the last binary operation was called as y.op(x)
\* res    the value returned by the last operation
\* ord    the Option<Ordering> returned by the last partial_cmp
\* eqr    the bool returned by the last ==
\* op     the last operation
\* build  "debug" (integer overflow panics) or "release" (it wraps)
\* nops   number of arithmetic results bound back to an operand
\* args   the (mantissa, exponent) handed to the last new, else <<>>
\* txt    the text handed to the last from_str
\* perr   the Err kind returned by the last from_str ("" when Ok)
VARIABLES x, y, swp, res, ord, eqr, op, build, nops, args, txt, perr

vars == <<x, y, swp, res, ord, eqr, op, build, nops, args, txt, perr>>

\* ----------------------------------------------------- BigFloat, Exponent
\* A BigFloat is held as the list of mantissas along its chain of
\* Exponent::BigFloat boxes, and the Exponent::Long that ends the chain.
\* ovf marks a value computed through an i64 overflow: a debug build has
\* panicked there, a release build has wrapped and returns the value.
BF(m, e) == [m |-> <<m>>, e |-> e, ovf |-> FALSE]

Nested(m, inner) == [m |-> <<m>> \o inner.m, e |-> inner.e, ovf |-> inner.ovf]

Overflowed(v) == [v EXCEPT !.ovf = TRUE]

mantissa(v) == Head(v.m)

IsLong(v) == Len(v.m) = 1

IsNested(v) == Len(v.m) > 1

\* the boxed BigFloat of an Exponent::BigFloat
Inner(v) == [m |-> Tail(v.m), e |-> v.e, ovf |-> FALSE]

\* the outcome of a panic
PANIC == BF(FPanic, 0)

IsPanic(v) == mantissa(v).k = "panic"

Ten == Lit(1, 1)
One == Lit(1, 0)

\* i64 `a + b` where the build lets it wrap
AddLong(a, b) == WrapLong(a + b)

\* normalize without the division of a mantissa >= 10 at a non-zero exponent
normalize_unscaled(m, e) ==
  IF FIsZero(m) \/ ~FIsFinite(m) THEN BF(m, e)
  ELSE LET abs_mantissa == FAbs(m)
           adjustment == Log10Floor(abs_mantissa)
           scaled == FDiv(m, Powi10(AsI32(adjustment)))
       IN IF e = 0
          THEN (IF ~FLt(abs_mantissa, Ten) THEN BF(scaled, adjustment) ELSE BF(m, e))
          ELSE IF ~FLt(abs_mantissa, Ten)
               THEN (IF InLong(e + adjustment) THEN BF(m, e + adjustment)
                     ELSE Overflowed(BF(m, AddLong(e, adjustment))))
               ELSE IF FLt(abs_mantissa, One)
                    THEN BF(FMul(m, Powi10(AsI32(e))), 0)
                    ELSE BF(m, e)

\* BigFloat::normalize, applied to (mantissa, Long exponent)
normalize(m, e) ==
  IF FIsZero(m) \/ ~FIsFinite(m) THEN BF(m, e)
  ELSE LET abs_mantissa == FAbs(m)
           adjustment == Log10Floor(abs_mantissa)
           scaled == FDiv(m, Powi10(AsI32(adjustment)))
       IN IF e = 0
          THEN (IF ~FLt(abs_mantissa, Ten) THEN BF(scaled, adjustment) ELSE BF(m, e))
          ELSE IF ~FLt(abs_mantissa, Ten)
               THEN (IF InLong(e + adjustment) THEN BF(scaled, e + adjustment)
                     ELSE Overflowed(BF(scaled, AddLong(e, adjustment))))
               ELSE IF FLt(abs_mantissa, One)
                    THEN BF(FMul(m, Powi10(AsI32(e))), 0)
                    ELSE BF(m, e)

new(m, e) == normalize(m, e)

new_from_i64_exponent(m, e) ==
  IF e < 0 THEN BF(FMul(m, Powi10(AsI32(e))), 0)
  ELSE new(m, e)

from_f64(value) ==
  IF FIsZero(value) THEN BF(FZero, 0)
  ELSE IF ~FIsFinite(value) THEN BF(value, 0)
  ELSE LET abs_value == FAbs(value)
           exponent == Log10Floor(abs_value)
           m == FDiv(abs_value, Powi10(AsI32(exponent)))
       IN IF FLt(abs_value, One) THEN BF(value, 0)
          ELSE BF(IF FIsSignNegative(value) THEN FNeg(m) ELSE m, exponent)

is_zero(v) == FIsZero(mantissa(v))

is_finite(v) == FIsFinite(mantissa(v))

CmpInt(a, b) == IF a < b THEN "Less" ELSE IF a > b THEN "Greater" ELSE "Equal"

compare_exponents(a, b) ==
  IF IsLong(a) /\ IsLong(b) THEN CmpInt(a.e, b.e)
  ELSE IF IsLong(a) THEN "Less"
  ELSE IF IsLong(b) THEN "Greater"
  ELSE "Equal"

RECURSIVE add(_, _)
add(a, b) ==
  IF is_zero(a) THEN b
  ELSE IF is_zero(b) THEN a
  ELSE IF ~is_finite(a) \/ ~is_finite(b) THEN from_f64(FAdd(mantissa(a), mantissa(b)))
  ELSE LET exp_cmp == compare_exponents(a, b) IN
    CASE exp_cmp = "Equal" ->
           LET new_mantissa == FAdd(mantissa(a), mantissa(b))
           IN IF IsLong(a) THEN new(new_mantissa, a.e)
              ELSE [a EXCEPT !.m[1] = new_mantissa]
      [] exp_cmp = "Greater" ->
           IF IsLong(a) /\ IsLong(b)
           THEN LET exp_diff == WrapLong(a.e - b.e)
                    scale_factor == Powi10(AsI32(exp_diff))
                    scaled_other == FDiv(mantissa(b), scale_factor)
                    sum == IF exp_diff > PrecisionCliff THEN a
                           ELSE new(FAdd(mantissa(a), scaled_other), a.e)
                IN IF InLong(a.e - b.e) THEN sum ELSE Overflowed(sum)
           ELSE a
      [] exp_cmp = "Less" -> add(b, a)

neg(v) == [v EXCEPT !.m[1] = FNeg(mantissa(v))]

sub(a, b) == add(a, neg(b))

\* mul with a wrapping exponent sum in place of the promotion
mul_wrapping(a, b) ==
  IF is_zero(a) \/ is_zero(b) THEN from_f64(FZero)
  ELSE IF ~is_finite(a) \/ ~is_finite(b) THEN from_f64(FMul(mantissa(a), mantissa(b)))
  ELSE LET new_mantissa == FMul(mantissa(a), mantissa(b)) IN
    IF IsLong(a) /\ IsLong(b)
    THEN new(new_mantissa, WrapLong(a.e + b.e))
    ELSE new(new_mantissa, 0)

mul(a, b) ==
  IF is_zero(a) \/ is_zero(b) THEN from_f64(FZero)
  ELSE IF ~is_finite(a) \/ ~is_finite(b) THEN from_f64(FMul(mantissa(a), mantissa(b)))
  ELSE LET new_mantissa == FMul(mantissa(a), mantissa(b)) IN
    IF IsLong(a) /\ IsLong(b)
    THEN IF InLong(a.e + b.e) THEN new(new_mantissa, a.e + b.e)
         ELSE LET big_exp1 == new(IntToF64(a.e), 0)
                  big_exp2 == new(IntToF64(b.e), 0)
              IN Nested(new_mantissa, add(big_exp1, big_exp2))
    ELSE new(new_mantissa, 0)

div(a, b) ==
  IF is_zero(b) THEN from_f64(FInf)
  ELSE IF is_zero(a) THEN from_f64(FZero)
  ELSE IF ~is_finite(a) \/ ~is_finite(b) THEN from_f64(FDiv(mantissa(a), mantissa(b)))
  ELSE LET new_mantissa == FDiv(mantissa(a), mantissa(b)) IN
    IF IsLong(a) /\ IsLong(b)
    THEN IF InLong(a.e - b.e) THEN new(new_mantissa, a.e - b.e)
         ELSE LET big_exp1 == new(IntToF64(a.e), 0)
                  big_exp2 == new(IntToF64(b.e), 0)
              IN Nested(new_mantissa, sub(big_exp1, big_exp2))
    ELSE new(new_mantissa, 0)

\* the while loop of powi: binary exponentiation
RECURSIVE powi_loop(_, _, _)
powi_loop(result, base, exp) ==
  IF exp = 0 THEN result
  ELSE LET r1 == IF exp % 2 = 1 THEN mul(result, base) ELSE result
           b1 == mul(base, base)
           rest == powi_loop(r1, b1, exp \div 2)
       IN IF r1.ovf \/ b1.ovf THEN Overflowed(rest) ELSE rest

\* BigFloat::powi.  For n = i32::MIN the negation -n overflows: a build with
\* overflow checks panics there, and one without them calls powi(i32::MIN)
\* again, without end, until the stack overflows.
RECURSIVE powi(_, _)
powi(v, n) ==
  IF n = 0 THEN from_f64(One)
  ELSE IF n = 1 THEN v
  ELSE IF n < 0
       THEN IF AsI32(0 - n) < 0 THEN PANIC
            ELSE LET positive_result == powi(v, AsI32(0 - n))
                     q == div(from_f64(One), positive_result)
                 IN IF IsPanic(positive_result) THEN PANIC
                    ELSE IF positive_result.ovf THEN Overflowed(q)
                    ELSE q
  ELSE powi_loop(from_f64(One), v, n)

partial_cmp(a, b) ==
  IF FIsNaN(mantissa(a)) \/ FIsNaN(mantissa(b)) THEN "None"
  ELSE IF FIsInfinite(mantissa(a)) \/ FIsInfinite(mantissa(b))
       THEN FPartialCmp(mantissa(a), mantissa(b))
  ELSE IF is_zero(a) /\ is_zero(b) THEN "Equal"
  ELSE IF is_zero(a) THEN (IF FLt(FZero, mantissa(b)) THEN "Less" ELSE "Greater")
  ELSE IF is_zero(b) THEN (IF FLt(FZero, mantissa(a)) THEN "Greater" ELSE "Less")
  ELSE LET self_sign == FIsSignPositive(mantissa(a))
           other_sign == FIsSignPositive(mantissa(b))
           exp_cmp == compare_exponents(a, b)
       IN IF self_sign /\ ~other_sign THEN "Greater"
          ELSE IF ~self_sign /\ other_sign THEN "Less"
          ELSE CASE exp_cmp = "Equal" ->
                      (IF self_sign THEN FPartialCmp(mantissa(a), mantissa(b))
                       ELSE FPartialCmp(mantissa(b), mantissa(a)))
                 [] exp_cmp = "Greater" -> (IF self_sign THEN "Greater" ELSE "Less")
                 [] exp_cmp = "Less" -> (IF self_sign THEN "Less" ELSE "Greater")

\* Option<Ordering>::unwrap_or
unwrap_or(o, d) == IF o = "None" THEN d ELSE o

\* <BigFloat as Ord>::cmp
cmp(a, b) == unwrap_or(partial_cmp(a, b), "Equal")

\* derived PartialEq: field-wise ==, f64 == on every mantissa of the chain
eq(a, b) ==
  /\ Len(a.m) = Len(b.m)
  /\ \A i \in 1..Len(a.m) : FEq(a.m[i], b.m[i])
  /\ a.e = b.e

\* ------------------------------------------------------------------ text
\* A &str is a sequence of chars.  ASCII chars are one-letter strings; the
\* non-ASCII chars are named: "INF" is U+221E, "IDOT" is U+0130 (capital I
\* with dot above), "CDOT" is U+0307 (combining dot above) and "TIMES" is
\* U+00D7 (multiplication sign).
Utf8Len(c) ==
  CASE c = "INF" -> 3
    [] c = "TIMES" -> 2
    [] c = "IDOT" -> 2
    [] c = "CDOT" -> 2
    [] OTHER -> 1

\* char::to_lowercase
LowerChar(c) ==
  CASE c = "E" -> <<"e">>
    [] c = "N" -> <<"n">>
    [] c = "A" -> <<"a">>
    [] c = "I" -> <<"i">>
    [] c = "F" -> <<"f">>
    [] c = "T" -> <<"t">>
    [] c = "Y" -> <<"y">>
    [] c = "IDOT" -> <<"i", "CDOT">>
    [] OTHER -> <<c>>

RECURSIVE to_lowercase(_)
to_lowercase(s) ==
  IF s = <<>> THEN <<>> ELSE LowerChar(Head(s)) \o to_lowercase(Tail(s))

\* the byte offset of the last c, or -1
RECURSIVE find_last(_, _)
find_last(s, c) ==
  IF s = <<>> THEN 0 - 1
  ELSE LET r == find_last(Tail(s), c)
       IN IF r >= 0 THEN Utf8Len(Head(s)) + r
          ELSE IF Head(s) = c THEN 0
          ELSE 0 - 1

\* str::find(c): the byte offset of the first c, or -1 for None
RECURSIVE find(_, _)
find(s, c) ==
  IF s = <<>> THEN 0 - 1
  ELSE IF Head(s) = c THEN 0
  ELSE LET r == find(Tail(s), c)
       IN IF r < 0 THEN r ELSE Utf8Len(Head(s)) + r

\* the number of chars of s before byte offset b, or -1 when b is not a
\* char boundary of s (str::split_at and slicing panic there)
RECURSIVE CharsBefore(_, _)
CharsBefore(s, b) ==
  IF b = 0 THEN 0
  ELSE IF s = <<>> \/ b < Utf8Len(Head(s)) THEN 0 - 1
  ELSE LET r == CharsBefore(Tail(s), b - Utf8Len(Head(s)))
       IN IF r < 0 THEN r ELSE 1 + r

DropChars(s, n) == SubSeq(s, n + 1, Len(s))

IsWhite(c) == c = " "

RECURSIVE TrimStart(_)
TrimStart(s) == IF s # <<>> /\ IsWhite(Head(s)) THEN TrimStart(Tail(s)) ELSE s

RECURSIVE TrimEnd(_)
TrimEnd(s) ==
  IF s # <<>> /\ IsWhite(s[Len(s)]) THEN TrimEnd(SubSeq(s, 1, Len(s) - 1)) ELSE s

trim(s) == TrimEnd(TrimStart(s))

\* s.matches('e').count()
RECURSIVE CountE(_)
CountE(s) ==
  IF s = <<>> THEN 0 ELSE (IF Head(s) = "e" THEN 1 ELSE 0) + CountE(Tail(s))

DigitChars == {"0", "1", "2", "3", "4", "5", "6", "7", "8", "9"}

DigitVal(c) ==
  CASE c = "0" -> 0 [] c = "1" -> 1 [] c = "2" -> 2 [] c = "3" -> 3 [] c = "4" -> 4
    [] c = "5" -> 5 [] c = "6" -> 6 [] c = "7" -> 7 [] c = "8" -> 8 [] c = "9" -> 9

\* the number of leading digits of s
RECURSIVE NumLead(_)
NumLead(s) ==
  IF s # <<>> /\ Head(s) \in DigitChars THEN 1 + NumLead(Tail(s)) ELSE 0

\* values at or above SatCap are outside the i64 and the f64 exponent range
SatCap == 8 * Pow2(LongBits)

\* the value of a digit string, saturating at SatCap
RECURSIVE DigitsVal(_, _)
DigitsVal(s, acc) ==
  IF s = <<>> THEN acc
  ELSE DigitsVal(Tail(s), IF 10 * acc + DigitVal(Head(s)) > SatCap THEN SatCap
                          ELSE 10 * acc + DigitVal(Head(s)))

\* [sign] digit+ : <<ok, value>>
ParseSignedDigits(s) ==
  LET signed == s # <<>> /\ Head(s) \in {"+", "-"}
      body == IF signed THEN Tail(s) ELSE s
      n == DigitsVal(body, 0)
  IN IF body = <<>> \/ NumLead(body) # Len(body) THEN <<FALSE, 0>>
     ELSE <<TRUE, IF signed /\ Head(s) = "-" THEN 0 - n ELSE n>>

\* str::parse::<i64>
ParseI64(s) ==
  LET r == ParseSignedDigits(s)
  IN IF r[1] /\ InLong(r[2]) THEN r ELSE <<FALSE, 0>>

\* the leading digits of a digit string that a double keeps, and the number
\* of digits dropped after them: <<value, dropped>>
RECURSIVE LeadVal(_, _, _)
LeadVal(s, acc, dropped) ==
  IF s = <<>> THEN <<acc, dropped>>
  ELSE IF acc >= Pow10(Digits) THEN LeadVal(Tail(s), acc, dropped + 1)
  ELSE LeadVal(Tail(s), 10 * acc + DigitVal(Head(s)), dropped)

\* str::parse::<f64>: <<ok, value>>; a literal out of range parses to
\* an infinity or to zero, never to an error
ParseF64(s) ==
  LET signed == s # <<>> /\ Head(s) \in {"+", "-"}
      sg == IF signed /\ Head(s) = "-" THEN 0 - 1 ELSE 1
      body == IF signed THEN Tail(s) ELSE s
      low == to_lowercase(body)
      ni == NumLead(body)
      r1 == DropChars(body, ni)
      hasdot == r1 # <<>> /\ Head(r1) = "."
      r2 == IF hasdot THEN Tail(r1) ELSE r1
      nf == IF hasdot THEN NumLead(r2) ELSE 0
      r3 == DropChars(r2, nf)
      hasexp == r3 # <<>> /\ Head(r3) \in {"e", "E"}
      ex == IF hasexp THEN ParseSignedDigits(Tail(r3)) ELSE <<r3 = <<>>, 0>>
      n == LeadVal(SubSeq(body, 1, ni) \o SubSeq(r2, 1, nf), 0, 0)
  IN IF low \in {<<"i", "n", "f">>, <<"i", "n", "f", "i", "n", "i", "t", "y">>}
     THEN <<TRUE, FSignedInf(sg)>>
     ELSE IF low = <<"n", "a", "n">> THEN <<TRUE, FNaN>>
     ELSE IF ni + nf = 0 \/ ~ex[1] THEN <<FALSE, FZero>>
     ELSE <<TRUE, Mk(sg * n[1], ex[2] - nf + n[2])>>

Ok(v) == [err |-> "", v |-> v]
Err(e) == [err |-> e, v |-> BF(FZero, 0)]

\* <BigFloat as FromStr>::from_str; err is "" for Ok, "panic" for a panic
RECURSIVE from_str(_)
from_str(s0) ==
  LET s == trim(s0)
      low == to_lowercase(s)
      val == ParseF64(s)
      e_pos == find(low, "e")
      cut == CharsBefore(s, e_pos)
      mantissa_str == SubSeq(s, 1, cut)
      rest == DropChars(s, cut)
      exp_str == Tail(rest)
      m == ParseF64(mantissa_str)
      exp == ParseI64(exp_str)
      first_e == find(s, "e")
      cut2 == CharsBefore(s, first_e)
      m2 == ParseF64(SubSeq(s, 1, cut2))
  IN IF s = <<>> THEN Err("Empty string")
     ELSE IF low = <<"n", "a", "n">> THEN Ok(from_f64(FNaN))
     ELSE IF low \in {<<"i", "n", "f">>, <<"i", "n", "f", "i", "n", "i", "t", "y">>, <<"INF">>}
          THEN Ok(from_f64(FInf))
     ELSE IF low \in {<<"-", "i", "n", "f">>, <<"-", "i", "n", "f", "i", "n", "i", "t", "y">>,
                      <<"-", "INF">>}
          THEN Ok(from_f64(FNegInf))
     ELSE IF low \in {<<"0">>, <<"0", ".", "0">>} THEN Ok(from_f64(FZero))
     ELSE IF val[1] THEN Ok(from_f64(val[2]))
     ELSE IF e_pos >= 0
          THEN IF cut < 0 \/ rest = <<>> \/ Utf8Len(Head(rest)) # 1 THEN Err("panic")
               ELSE IF ~m[1] THEN Err("Invalid mantissa")
               ELSE IF exp[1] THEN Ok(new(m[2], exp[2]))
               ELSE LET inner == from_str(exp_str)
                    IN IF inner.err = "panic" THEN inner
                       ELSE IF inner.err = "" THEN Ok(Nested(m[2], inner.v))
                       ELSE Err("Invalid exponent")
     ELSE IF CountE(s) >= 2 /\ first_e >= 0
          THEN IF ~m2[1] THEN Err("Invalid mantissa")
               ELSE LET inner == from_str(DropChars(s, cut2 + 1))
                    IN IF inner.err = "" THEN Ok(Nested(m2[2], inner.v)) ELSE inner
     ELSE Err("Unable to parse")

\* --------------------------------------------------------------- Display
DigitChar(d) ==
  CASE d = 0 -> "0" [] d = 1 -> "1" [] d = 2 -> "2" [] d = 3 -> "3" [] d = 4 -> "4"
    [] d = 5 -> "5" [] d = 6 -> "6" [] d = 7 -> "7" [] d = 8 -> "8" [] d = 9 -> "9"

RECURSIVE NatToStr(_)
NatToStr(n) ==
  IF n < 10 THEN <<DigitChar(n)>> ELSE NatToStr(n \div 10) \o <<DigitChar(n % 10)>>

\* <i64 as Display>::fmt
IntToStr(n) == IF n < 0 THEN <<"-">> \o NatToStr(0 - n) ELSE NatToStr(n)

RECURSIVE Zeros(_)
Zeros(k) == IF k <= 0 THEN <<>> ELSE <<"0">> \o Zeros(k - 1)

\* the number of trailing zeros of n > 0
RECURSIVE TrailZeros(_)
TrailZeros(n) == IF n % 10 = 0 THEN 1 + TrailZeros(n \div 10) ELSE 0

\* <f64 as Display>::fmt: the shortest decimal expansion, never with an
\* exponent
FmtF64(a) ==
  IF FIsNaN(a) THEN <<"N", "a", "N">>
  ELSE IF FIsInfinite(a)
       THEN (IF a.s < 0 THEN <<"-", "i", "n", "f">> ELSE <<"i", "n", "f">>)
  ELSE IF FIsZero(a) THEN <<"0">>
  ELSE LET tz == TrailZeros(Abs(a.s))
           ds == NatToStr(Abs(a.s) \div Pow10(tz))
           q == a.x - (Digits - 1) + tz
           body == IF q >= 0 THEN ds \o Zeros(q)
                   ELSE IF Len(ds) > 0 - q
                        THEN SubSeq(ds, 1, Len(ds) + q) \o <<".">>
                               \o SubSeq(ds, Len(ds) + q + 1, Len(ds))
                        ELSE <<"0", ".">> \o Zeros(0 - q - Len(ds)) \o ds
       IN (IF a.s < 0 THEN <<"-">> ELSE <<>>) \o body

\* <BigFloat as Display>::fmt, the text of to_string()
RECURSIVE fmt(_)
fmt(v) ==
  IF FIsNaN(mantissa(v)) THEN <<"N", "a", "N">>
  ELSE IF FIsInfinite(mantissa(v))
       THEN (IF FIsSignPositive(mantissa(v)) THEN <<"INF">> ELSE <<"-", "INF">>)
  ELSE IF is_zero(v) THEN <<"0">>
  ELSE IF IsLong(v)
       THEN (IF v.e >= 0 - 4 /\ v.e <= 6
             THEN FmtF64(FMul(mantissa(v), Powi10(AsI32(v.e))))
             ELSE FmtF64(mantissa(v)) \o <<"e">> \o IntToStr(v.e))
  ELSE FmtF64(mantissa(v)) \o <<" ", "TIMES", " ", "1", "0", "^", "(">>
         \o fmt(Inner(v)) \o <<")">>

\* ------------------------------------------------------------ the inputs
\* the calls new(mantissa, exponent) of the caller:
\* new(1.5, 2), new(-2.5, i64::MAX), new(15, i64::MAX), new(0.15, 2),
\* new(0, 2), new(inf, 2), new(1.5, -1), new(15, 0)
NewIn ==
  { <<Lit(15, 0 - 1), 2>>, <<Lit(0 - 25, 0 - 1), LongMax>>, <<Lit(15, 0), LongMax>>,
    <<Lit(15, 0 - 2), 2>>, <<FZero, 2>>, <<FInf, 2>>, <<Lit(15, 0 - 1), 0 - 1>>,
    <<Lit(15, 0), 0>> }

\* the calls new_from_i64_exponent(1.5, -1), new_from_i64_exponent(15, 2)
NewFromI64In == { <<Lit(15, 0 - 1), 0 - 1>>, <<Lit(15, 0), 2>> }

\* the calls from_f64(0), from_f64(0.5), from_f64(-123), from_f64(NaN)
F64In == {FZero, Lit(5, 0 - 1), Lit(0 - 123, 0), FNaN}

\* the texts handed to from_str
T_1p23e456 == <<"1", ".", "2", "3", "e", "4", "5", "6">>
T_1p23e10 == <<"1", ".", "2", "3", "e", "1", "0">>
T_1p5em5 == <<"1", ".", "5", "e", "-", "5">>
T_1e1e100 == <<"1", "e", "1", "e", "1", "0", "0">>
T_1e1e10 == <<"1", "e", "1", "e", "1", "0">>
T_2E1E10 == <<"2", "E", "1", "E", "1", "0">>
T_3e1e1e10 == <<"3", "e", "1", "e", "1", "e", "1", "0">>
T_12p5 == <<"1", "2", ".", "5">>
T_nan == <<" ", "N", "a", "N">>
T_infe5 == <<"i", "n", "f", "e", "5">>
T_empty == <<>>
T_e5 == <<"e", "5">>
T_1e == <<"1", "e">>
T_x == <<"x">>
T_1e1e2 == <<"1", "e", "1", "e", "2">>
T_IIIe == <<"IDOT", "IDOT", "IDOT", "e">>

TextIn ==
  { T_1p23e456, T_1p23e10, T_1p5em5, T_1e1e100, T_1e1e10, T_2E1E10, T_3e1e1e10, T_12p5,
    T_nan, T_infe5, T_empty, T_e5, T_1e, T_x, T_1e1e2, T_IIIe }

\* the calls powi(n)
PowiIn == {0, 1, 2, 3, 10, 0 - 1, 0 - 2, IntMin}

CtorOps == {"new", "new_from_i64_exponent", "from_f64"}

ArithOps == {"add", "sub", "mul", "div"}

\* the operands of the last binary operation, in call order
L == IF swp THEN y ELSE x
R == IF swp THEN x ELSE y

\* no panic has ended the program
Running == ~IsPanic(res)

OverflowChecks == build = "debug"

\* what the build makes of a returned value
Outcome(v) ==
  IF ~v.ovf THEN v
  ELSE IF OverflowChecks THEN PANIC
  ELSE [v EXCEPT !.ovf = FALSE]

\* from_str of every text the caller hands in
Parsed == [s \in TextIn |-> from_str(s)]

\* The caller is between expressions.  Operators and comparisons leave x and
\* y alone, so every state reached by applying one right after another is
\* also reached by applying it directly: the caller is modelled as applying
\* one per pair of operands and then keeping the result (Bind) or not.
Ready == Running /\ op \notin ArithOps \cup {"cmp", "to_string", "parse", "powi"}

\* --------------------------------------------------------------- actions
\* a constructor returned v (or from_str returned an Err e, or one of them
\* panicked): the caller keeps an Ok value as one of its operands
Returned(v0, name, a, t, e) ==
  /\ res' = Outcome(v0)
  /\ op' = name
  /\ swp' = FALSE
  /\ ord' = "-"
  /\ eqr' = FALSE
  /\ args' = a
  /\ txt' = t
  /\ perr' = e
  /\ UNCHANGED <<build, nops>>
  /\ IF IsPanic(Outcome(v0)) \/ e # "" THEN UNCHANGED <<x, y>>
     ELSE \/ x' = Outcome(v0) /\ UNCHANGED y
          \/ y' = Outcome(v0) /\ UNCHANGED x

New ==
  /\ Ready
  /\ \E a \in NewIn : Returned(new(a[1], a[2]), "new", a, <<>>, "")

NewFromI64Exponent ==
  /\ Ready
  /\ \E a \in NewFromI64In :
       Returned(new_from_i64_exponent(a[1], a[2]), "new_from_i64_exponent", <<>>, <<>>, "")

FromF64 ==
  /\ Ready
  /\ \E v \in F64In : Returned(from_f64(v), "from_f64", <<>>, <<>>, "")

FromStr ==
  /\ Ready
  /\ \E s \in TextIn :
       LET r == Parsed[s]
       IN Returned(IF r.err = "panic" THEN PANIC ELSE r.v, "from_str", <<>>, s,
                   IF r.err = "panic" THEN "" ELSE r.err)

\* a binary operator was applied to the operands, in either order
Applied(v, name, s) ==
  /\ res' = Outcome(v)
  /\ op' = name
  /\ swp' = s
  /\ ord' = "-"
  /\ eqr' = FALSE
  /\ args' = <<>>
  /\ txt' = <<>>
  /\ perr' = ""
  /\ UNCHANGED <<x, y, build, nops>>

Add ==
  /\ Ready
  /\ \E s \in BOOLEAN :
       Applied(IF s THEN add(y, x) ELSE add(x, y), "add", s)

Sub ==
  /\ Ready
  /\ \E s \in BOOLEAN :
       Applied(IF s THEN sub(y, x) ELSE sub(x, y), "sub", s)

Mul ==
  /\ Ready
  /\ \E s \in BOOLEAN :
       Applied(IF s THEN mul(y, x) ELSE mul(x, y), "mul", s)

Div ==
  /\ Ready
  /\ \E s \in BOOLEAN :
       Applied(IF s THEN div(y, x) ELSE div(x, y), "div", s)

\* a.powi(n) of one of the operands
Powi ==
  /\ Ready
  /\ \E s \in BOOLEAN, n \in PowiIn :
       /\ res' = Outcome(powi(IF s THEN y ELSE x, n))
       /\ swp' = s
       /\ args' = <<n>>
  /\ op' = "powi"
  /\ ord' = "-"
  /\ eqr' = FALSE
  /\ txt' = <<>>
  /\ perr' = ""
  /\ UNCHANGED <<x, y, build, nops>>

\* a.partial_cmp(&b) and a == b
Compare ==
  /\ Ready
  /\ \E s \in BOOLEAN :
       /\ swp' = s
       /\ ord' = (IF s THEN partial_cmp(y, x) ELSE partial_cmp(x, y))
       /\ eqr' = (IF s THEN eq(y, x) ELSE eq(x, y))
  /\ op' = "cmp"
  /\ res' = x
  /\ args' = <<>>
  /\ txt' = <<>>
  /\ perr' = ""
  /\ UNCHANGED <<x, y, build, nops>>

\* v.to_string() of one of the operands
Display ==
  /\ Ready
  /\ \E s \in BOOLEAN :
       /\ swp' = s
       /\ txt' = fmt(IF s THEN y ELSE x)
       /\ res' = (IF s THEN y ELSE x)
  /\ op' = "to_string"
  /\ ord' = "-"
  /\ eqr' = FALSE
  /\ args' = <<>>
  /\ perr' = ""
  /\ UNCHANGED <<x, y, build, nops>>

\* the text of to_string() handed to from_str
ParseFormatted ==
  /\ Running
  /\ op = "to_string"
  /\ LET r == from_str(txt)
     IN /\ res' = Outcome(IF r.err = "panic" THEN PANIC ELSE r.v)
        /\ perr' = (IF r.err = "panic" THEN "" ELSE r.err)
  /\ op' = "parse"
  /\ ord' = "-"
  /\ eqr' = FALSE
  /\ args' = <<>>
  /\ UNCHANGED <<x, y, swp, txt, build, nops>>

\* the caller keeps the result of an arithmetic operation as its operand x
Bind ==
  /\ Running
  /\ op \in ArithOps
  /\ nops < MaxOps
  /\ x' = res
  /\ nops' = nops + 1
  /\ op' = "bind"
  /\ swp' = FALSE
  /\ UNCHANGED <<y, res, ord, eqr, build, args, txt, perr>>

Init ==
  /\ build \in {"debug", "release"}
  /\ x = from_f64(FZero)
  /\ y = from_f64(FZero)
  /\ res = from_f64(FZero)
  /\ swp = FALSE
  /\ ord = "-"
  /\ eqr = FALSE
  /\ op = "from_f64"
  /\ nops = 0
  /\ args = <<>>
  /\ txt = <<>>
  /\ perr = ""

\* the caller builds values with the constructors and chains arithmetic
Next ==
  \/ New
  \/ NewFromI64Exponent
  \/ FromF64
  \/ Add
  \/ Sub
  \/ Mul
  \/ Div
  \/ Compare
  \/ Bind

Spec == Init /\ [][Next]_vars

\* the caller parses text, and applies one operation to its operands
NextText ==
  \/ FromF64
  \/ FromStr
  \/ Add
  \/ Sub
  \/ Mul
  \/ Div
  \/ Compare

SpecText == Init /\ [][NextText]_vars

\* the caller builds or parses values, formats them and parses the text
NextFmt ==
  \/ New
  \/ NewFromI64Exponent
  \/ FromF64
  \/ FromStr
  \/ Display
  \/ ParseFormatted

SpecFmt == Init /\ [][NextFmt]_vars

\* the caller builds values and raises them to integer powers
NextMath ==
  \/ New
  \/ NewFromI64Exponent
  \/ FromF64
  \/ Powi

SpecMath == Init /\ [][NextMath]_vars

\* ---------------------------------------------------------------- claims
FiniteNonZero(v) == is_finite(v) /\ ~is_zero(v)

\* 1 <= |m| < 10
InBand(m) == FIsFinite(m) /\ ~FLt(FAbs(m), One) /\ FLt(FAbs(m), Ten)

\* two doubles equal within one unit of the last digit
FClose(a, b) ==
  \/ a = b
  \/ FIsFinite(a) /\ FIsFinite(b) /\ a.x = b.x /\ Abs(a.s - b.s) <= 1

\* the value with a Long exponent v denotes the integer t within two units
\* of the last digit of its mantissa
Approx(v, t) ==
  LET k == mantissa(v).x + v.e - (Digits - 1)
  IN /\ IsLong(v)
     /\ is_finite(v)
     /\ mantissa(v).x + v.e <= 8
     /\ IF k >= 0 THEN Abs(mantissa(v).s * Pow10(k) - t) <= 2 * Pow10(k)
        ELSE Abs(mantissa(v).s - t * Pow10(0 - k)) <= 2

\* C1 as claimed: every non-zero finite value with a Long exponent returned
\* by a constructor or by add/sub/mul/div has 1 <= |mantissa| < 10.
C1_NormalizedAsClaimed ==
  (op \in CtorOps \cup ArithOps /\ Running /\ IsLong(res) /\ FiniteNonZero(res))
    => InBand(mantissa(res))

\* C1 amended: every non-zero finite value with a Long exponent other than 0
\* returned by a constructor or by add/sub/mul/div has 1 <= |mantissa| < 10
\* (at exponent 0 the mantissa holds the whole value, below 1 or not).
C1_NormalizedAtNonZeroExponent ==
  (op \in CtorOps \cup ArithOps /\ Running /\ IsLong(res) /\ FiniteNonZero(res)
     /\ res.e # 0)
    => InBand(mantissa(res))

\* an operation on a kept result returned a new value at a non-zero exponent
C1_Witness ==
  /\ op \in ArithOps /\ nops >= 1 /\ Running
  /\ IsLong(res) /\ FiniteNonZero(res) /\ res.e # 0
  /\ res # x /\ res # y
  /\ InBand(mantissa(res))

\* C2 as claimed: every returned value whose mantissa is 0, NaN or infinite
\* has exponent Long(0).
C2_CanonicalZeroAndSentinels ==
  (op \in CtorOps \cup ArithOps /\ Running /\ (is_zero(res) \/ ~is_finite(res)))
    => (IsLong(res) /\ res.e = 0)

\* C3: a * b for finite non-zero a, b with Long exponents whose sum exceeds
\* the i64 maximum returns, without panic or wrap, the product of the
\* mantissas with a BigFloat exponent that denotes e1 + e2.
C3_MulOverflowPromotes ==
  (op = "mul" /\ IsLong(L) /\ IsLong(R) /\ FiniteNonZero(L) /\ FiniteNonZero(R)
     /\ L.e + R.e > LongMax)
    => /\ Running
       /\ IsNested(res)
       /\ mantissa(res) = FMul(mantissa(L), mantissa(R))
       /\ Approx(Inner(res), L.e + R.e)

C3_Witness ==
  /\ op = "mul" /\ IsLong(L) /\ IsLong(R) /\ FiniteNonZero(L) /\ FiniteNonZero(R)
  /\ L.e + R.e > LongMax
  /\ IsNested(res)
  /\ Approx(Inner(res), L.e + R.e)

\* C4 as claimed: new, add, sub, mul and div never panic on an exponent
\* overflow, and new returns a BigFloat exponent when the increment of the
\* exponent would leave the i64 range.
C4_OverflowNeverFatalNeverWraps ==
  /\ op \in {"new"} \cup ArithOps => Running
  /\ (op = "new" /\ FIsFinite(args[1]) /\ ~FLt(FAbs(args[1]), Ten) /\ args[2] # 0
        /\ ~InLong(args[2] + Log10Floor(args[1])))
       => IsNested(res)

\* the values the constructor new returns without overflow
NewOut == {v \in {new(a[1], a[2]) : a \in NewIn} : ~v.ovf}

lt(a, b) == partial_cmp(a, b) = "Less"

\* C5 as claimed: for finite a, b, c exactly one of a < b, a == b, a > b
\* holds, and a < b with b < c gives a < c.
C5_StrictTotalOrder ==
  (op = "cmp" /\ is_finite(L) /\ is_finite(R))
    => /\ (IF ord = "Less" THEN 1 ELSE 0) + (IF eqr THEN 1 ELSE 0)
            + (IF ord = "Greater" THEN 1 ELSE 0) = 1
       /\ \A c \in NewOut :
            (is_finite(c) /\ ord = "Less" /\ lt(R, c)) => lt(L, c)

\* the same exponent, and mantissas equal within tolerance
SameValue(u, v) ==
  /\ u.e = v.e
  /\ Tail(u.m) = Tail(v.m)
  /\ FClose(mantissa(u), mantissa(v))

\* C6 as claimed: a + b and b + a have the same exponent and the same
\* mantissa within tolerance.
C6_AddCommutes ==
  op = "add" => SameValue(res, Outcome(add(R, L)))

\* C7 as claimed: for every finite x, x + 0 and 0 + x return x unchanged.
C7_AdditiveIdentity ==
  (op = "add" /\ Running)
    => /\ (is_finite(L) /\ R = from_f64(FZero)) => res = L
       /\ (is_finite(R) /\ L = from_f64(FZero)) => res = R

\* C8 as claimed: for finite non-zero x, x / 0 is the infinity with the sign
\* of x, at exponent Long(0).
C8_DivByZeroSignedInfinity ==
  (op = "div" /\ FiniteNonZero(L) /\ is_zero(R))
    => /\ Running
       /\ res = BF(FSignedInf(mantissa(L).s), 0)

\* t is "<m>e<n>" with 1 <= |m| < 10 a double literal and n an i64 literal
SciForm(t) ==
  LET p == find(t, "e")
  IN /\ p >= 0
     /\ CountE(t) = 1
     /\ \A i \in 1..Len(t) : Utf8Len(t[i]) = 1 /\ t[i] # "E"
     /\ ParseF64(SubSeq(t, 1, p))[1]
     /\ InBand(ParseF64(SubSeq(t, 1, p))[2])
     /\ \A i \in 1..p : t[i] \in DigitChars \cup {".", "-", "+"}
     /\ ParseI64(SubSeq(t, p + 2, Len(t)))[1]

\* C9 as claimed: parsing "<m>e<n>" yields mantissa m and exponent Long(n).
C9_ScientificParse ==
  (op = "from_str" /\ SciForm(txt))
    => /\ Running
       /\ perr = ""
       /\ IsLong(res)
       /\ FClose(mantissa(res), ParseF64(SubSeq(txt, 1, find(txt, "e")))[2])
       /\ res.e = ParseI64(SubSeq(txt, find(txt, "e") + 2, Len(txt)))[2]

\* C10: a text with two or more 'e' that parses yields the text before the
\* first 'e' as mantissa and the parse of the whole remainder as BigFloat
\* exponent; "1e1e100" yields mantissa 1 and exponent BigFloat(1, Long(100)).
C10_NestedParse ==
  (op = "from_str" /\ Running /\ perr = "" /\ CountE(to_lowercase(trim(txt))) >= 2)
    => LET t == trim(txt)
           p == CharsBefore(to_lowercase(t), find(to_lowercase(t), "e"))
       IN /\ IsNested(res)
          /\ mantissa(res) = ParseF64(SubSeq(t, 1, p))[2]
          /\ Inner(res) = from_str(DropChars(t, p + 1)).v
          /\ txt = T_1e1e100 => res = Nested(Lit(1, 0), BF(Lit(1, 0), 100))

C10_Witness ==
  /\ op = "from_str" /\ perr = ""
  /\ txt = T_1e1e100
  /\ res = Nested(Lit(1, 0), BF(Lit(1, 0), 100))

\* C11 as claimed: for every finite value v, parsing the text of v.to_string()
\* succeeds and returns a value with the exponent of v and a mantissa equal
\* to that of v within tolerance.
C11_FormatParseRoundTrip ==
  (op = "parse" /\ is_finite(L))
    => /\ Running
       /\ perr = ""
       /\ SameValue(res, L)

\* C12 as claimed: from_str of every text returns a value or one of the four
\* kinds of Err (empty input, invalid mantissa, invalid exponent, unable to
\* parse); it never panics.
C12_ParsingNeverCrashes ==
  op = "from_str"
    => /\ Running
       /\ perr \in {"", "Empty string", "Invalid mantissa", "Invalid exponent",
                    "Unable to parse"}

\* C13 as claimed: for finite non-zero a, b with Long exponents ea > eb,
\* a + b (in either order) is a unchanged when ea - eb > 15, and otherwise
\* the normalization of mantissa(a) + mantissa(b) / 10^(ea - eb) at ea.
C13_AddAcrossExponents ==
  (op = "add" /\ IsLong(L) /\ IsLong(R) /\ FiniteNonZero(L) /\ FiniteNonZero(R)
     /\ L.e # R.e)
    => LET a == IF L.e > R.e THEN L ELSE R
           b == IF L.e > R.e THEN R ELSE L
           d == a.e - b.e
       IN /\ Running
          /\ res = (IF d > PrecisionCliff THEN a
                    ELSE new(FAdd(mantissa(a), FDiv(mantissa(b), Powi10(d))), a.e))

\* the exponent of v as a BigFloat
ExponentValue(v) == IF IsNested(v) THEN Inner(v) ELSE new(IntToF64(v.e), 0)

\* C14 as claimed: for finite non-zero a, b of which at least one has a
\* BigFloat exponent, a * b has the product of the mantissas and the BigFloat
\* sum of the two exponents, a / b the quotient and the BigFloat difference;
\* the exponent of the result is never reduced to Long(0).
C14_NestedMulDiv ==
  (op \in {"mul", "div"} /\ FiniteNonZero(L) /\ FiniteNonZero(R)
     /\ (IsNested(L) \/ IsNested(R)))
    => /\ Running
       /\ IsNested(res)
       /\ op = "mul" =>
            /\ FClose(mantissa(res), FMul(mantissa(L), mantissa(R)))
            /\ SameValue(Inner(res), add(ExponentValue(L), ExponentValue(R)))
       /\ op = "div" =>
            /\ FClose(mantissa(res), FDiv(mantissa(L), mantissa(R)))
            /\ SameValue(Inner(res), sub(ExponentValue(L), ExponentValue(R)))

\* C15 as claimed: for finite non-zero a, b of the same sign, both with
\* BigFloat exponents, compare_exponents(a, b) is the ordering of the two
\* exponents compared as BigFloats, and partial_cmp(a, b) orders the value
\* with the larger exponent as the larger in magnitude.
C15_NestedExponentsCompared ==
  (op = "cmp" /\ IsNested(L) /\ IsNested(R) /\ FiniteNonZero(L) /\ FiniteNonZero(R)
     /\ FIsSignPositive(mantissa(L)) = FIsSignPositive(mantissa(R)))
    => LET e_cmp == partial_cmp(Inner(L), Inner(R))
       IN /\ compare_exponents(L, R) = e_cmp
          /\ e_cmp = "Greater" =>
               ord = (IF FIsSignPositive(mantissa(L)) THEN "Greater" ELSE "Less")
          /\ e_cmp = "Less" =>
               ord = (IF FIsSignPositive(mantissa(L)) THEN "Less" ELSE "Greater")

\* the BigFloat v denotes a number above i64::MAX
AboveLongRange(v) ==
  /\ FiniteNonZero(v)
  /\ FIsSignPositive(mantissa(v))
  /\ \/ IsNested(v)
     \/ LET p == mantissa(v).x + v.e
            top == NDigits(LongMax) - 1
        IN \/ p > top
           \/ /\ p = top
              /\ IF p >= Digits - 1
                 THEN mantissa(v).s * Pow10(p - (Digits - 1)) > LongMax
                 ELSE mantissa(v).s > LongMax * Pow10(Digits - 1 - p)

\* C16 as claimed: every value with a BigFloat exponent returned by a
\* constructor, by from_str or by add/sub/mul/div has an exponent that denotes
\* a number above the i64 range.
C16_NestedOnlyOnOverflow ==
  (op \in CtorOps \cup ArithOps \cup {"from_str"} /\ Running /\ perr = ""
     /\ IsNested(res))
    => AboveLongRange(Inner(res))

\* the values the constructors return without overflow
CtorOut == NewOut \cup {from_f64(v) : v \in F64In}

Reverse(o) == IF o = "Less" THEN "Greater" ELSE IF o = "Greater" THEN "Less" ELSE o

\* C17 as claimed: cmp(a, b) is partial_cmp(a, b) when that is defined and
\* Equal when a or b is NaN; cmp(b, a) is the reverse of cmp(a, b); and
\* cmp(a, b) = Equal with cmp(b, c) = Equal gives cmp(a, c) = Equal.
C17_CmpTotalOrder ==
  op = "cmp"
    => LET r == unwrap_or(ord, "Equal")
       IN /\ (FIsNaN(mantissa(L)) \/ FIsNaN(mantissa(R))) => r = "Equal"
          /\ (~FIsNaN(mantissa(L)) /\ ~FIsNaN(mantissa(R))) => r = ord
          /\ cmp(R, L) = Reverse(r)
          /\ \A c \in CtorOut :
               (r = "Equal" /\ cmp(R, c) = "Equal") => cmp(L, c) = "Equal"

\* v * v * ... * v, n times
RECURSIVE NFold(_, _)
NFold(v, n) == IF n <= 1 THEN v ELSE mul(NFold(v, n - 1), v)

\* C18 as claimed: powi(n) returns for every n and base: 1 for n = 0, the
\* n-fold product of the base for n > 0, and 1 / powi(-n) for n < 0, the
\* minimum integer included.
C18_PowiTerminates ==
  op = "powi"
    => LET n == args[1]
       IN /\ Running
          /\ n = 0 => res = from_f64(One)
          /\ n > 0 => SameValue(res, Outcome(NFold(L, n)))
          /\ n < 0 => res = Outcome(div(from_f64(One), powi(L, 0 - n)))

\* the ordering of the numbers mantissa x 10^exponent that two finite values
\* with Long exponents denote
DenotedCmp(a, b) ==
  LET sa == Sgn(mantissa(a).s)
      sb == Sgn(mantissa(b).s)
      pa == mantissa(a).x + a.e
      pb == mantissa(b).x + b.e
      mag == IF pa # pb THEN CmpInt(pa, pb)
             ELSE CmpInt(Abs(mantissa(a).s), Abs(mantissa(b).s))
  IN IF sa # sb THEN CmpInt(sa, sb)
     ELSE IF sa = 0 THEN "Equal"
     ELSE IF sa > 0 THEN mag
     ELSE Reverse(mag)

\* C19 as claimed: for finite a, b returned by new, new_from_i64_exponent or
\* from_f64, partial_cmp(a, b) is the ordering of mantissa(a) x 10^exponent(a)
\* and mantissa(b) x 10^exponent(b).
C19_OrderingAgreesWithValue ==
  (op = "cmp" /\ nops = 0 /\ is_finite(L) /\ is_finite(R) /\ IsLong(L) /\ IsLong(R))
    => ord = DenotedCmp(L, R)

====
